---- MODULE Spec2Model ----
(***************************************************************************)
(* Verification model of the investment calculator's financial engine      *)
(* (calculatePMT, calculateInvestment, generateCashFlowProjection).        *)
(*                                                                         *)
(* The engine computes on JavaScript Numbers, i.e. IEEE-754 binary64       *)
(* values.  The model keeps that arithmetic: a Number is a record          *)
(*     [cls, sgn, man, exp]                                                *)
(* with cls "fin" (value sgn * man * 2^exp), "inf" (sgn * Infinity) or     *)
(* "nan".  Every operation (+, -, *, /, Math.pow) computes the exact       *)
(* result and rounds it to 53 significant bits, ties to even, overflowing  *)
(* to Infinity and underflowing gradually, as the source's operators do.   *)
(* Significands are kept as little-endian sequences of 15-bit limbs, so    *)
(* that no intermediate integer exceeds the checker's integer range.       *)
(* +0 and -0 are identified: the source never distinguishes them (every    *)
(* comparison treats them alike, and the only divisor that can be zero,    *)
(* Math.pow(..) - 1, is +0 when it is zero).                               *)
(***************************************************************************)
EXTENDS Integers, Sequences, FiniteSets, TLC

Max(a, b) == IF a >= b THEN a ELSE b
Min(a, b) == IF a <= b THEN a ELSE b

(***************************************************************************)
(* Natural numbers of arbitrary size: little-endian limb sequences without *)
(* leading (most significant) zero limbs; <<>> is zero.                    *)
(***************************************************************************)
LimbBits == 3 * 5
Base == 2^LimbBits

RECURSIVE NTrim(_)
NTrim(a) ==
    IF Len(a) = 0 THEN a
    ELSE IF a[Len(a)] = 0 THEN NTrim(SubSeq(a, 1, Len(a) - 1))
    ELSE a

RECURSIVE NFromInt(_)
NFromInt(k) == IF k = 0 THEN <<>> ELSE <<k % Base>> \o NFromInt(k \div Base)

RECURSIVE NToIntFrom(_, _)
NToIntFrom(a, i) == IF i > Len(a) THEN 0 ELSE a[i] + Base * NToIntFrom(a, i + 1)
NToInt(a) == NToIntFrom(a, 1)

NLimb(a, i) == IF i <= Len(a) THEN a[i] ELSE 0

RECURSIVE NAddFrom(_, _, _, _)
NAddFrom(a, b, i, c) ==
    IF i > Len(a) /\ i > Len(b)
    THEN (IF c = 0 THEN <<>> ELSE <<c>>)
    ELSE LET s == NLimb(a, i) + NLimb(b, i) + c
         IN  <<s % Base>> \o NAddFrom(a, b, i + 1, s \div Base)
NAdd(a, b) == NAddFrom(a, b, 1, 0)

RECURSIVE NSubFrom(_, _, _, _)
NSubFrom(a, b, i, br) ==
    IF i > Len(a) THEN <<>>
    ELSE LET d == a[i] - NLimb(b, i) - br
         IN  IF d < 0 THEN <<d + Base>> \o NSubFrom(a, b, i + 1, 1)
             ELSE <<d>> \o NSubFrom(a, b, i + 1, 0)
\* a - b, for a >= b
NSub(a, b) == NTrim(NSubFrom(a, b, 1, 0))

RECURSIVE NCmpFrom(_, _, _)
NCmpFrom(a, b, i) ==
    IF i = 0 THEN 0
    ELSE IF a[i] > b[i] THEN 1
    ELSE IF a[i] < b[i] THEN -1
    ELSE NCmpFrom(a, b, i - 1)
\* -1, 0 or 1 as a < b, a = b, a > b
NCmp(a, b) ==
    IF Len(a) > Len(b) THEN 1
    ELSE IF Len(a) < Len(b) THEN -1
    ELSE NCmpFrom(a, b, Len(a))

RECURSIVE NMulSmallFrom(_, _, _, _)
NMulSmallFrom(a, k, i, c) ==
    IF i > Len(a)
    THEN (IF c = 0 THEN <<>> ELSE <<c>>)
    ELSE LET p == a[i] * k + c
         IN  <<p % Base>> \o NMulSmallFrom(a, k, i + 1, p \div Base)
\* a * k, for 0 <= k < Base
NMulSmall(a, k) == IF k = 0 THEN <<>> ELSE NMulSmallFrom(a, k, 1, 0)

NShlLimbs(a, n) == IF Len(a) = 0 THEN <<>> ELSE [i \in 1..n |-> 0] \o a

RECURSIVE NMulFrom(_, _, _)
NMulFrom(a, b, j) ==
    IF j > Len(b) THEN <<>>
    ELSE NAdd(NShlLimbs(NMulSmall(a, b[j]), j - 1), NMulFrom(a, b, j + 1))
NMul(a, b) == NMulFrom(a, b, 1)

RECURSIVE BitLenInt(_)
BitLenInt(k) == IF k = 0 THEN 0 ELSE 1 + BitLenInt(k \div 2)
NBitLen(a) == IF Len(a) = 0 THEN 0 ELSE (Len(a) - 1) * LimbBits + BitLenInt(a[Len(a)])

\* a * 2^s
NShl(a, s) == NShlLimbs(NMulSmall(a, 2^(s % LimbBits)), s \div LimbBits)

\* floor(a / 2^s)
NShr(a, s) ==
    LET q == s \div LimbBits
        r == s % LimbBits
        b == IF q >= Len(a) THEN <<>> ELSE SubSeq(a, q + 1, Len(a))
    IN  NTrim([i \in 1..Len(b) |->
                  (b[i] \div 2^r) + (NLimb(b, i + 1) % 2^r) * 2^(LimbBits - r)])

\* a mod 2^s = 0
NLowZero(a, s) ==
    LET q == s \div LimbBits
        r == s % LimbBits
    IN  /\ \A i \in 1..Min(q, Len(a)) : a[i] = 0
        /\ NLimb(a, q + 1) % 2^r = 0

\* bit i of a (bit 0 is the least significant)
NBit(a, i) == (NLimb(a, (i \div LimbBits) + 1) \div 2^(i % LimbBits)) % 2

RECURSIVE DigitSearch(_, _, _, _)
\* the largest d in lo..hi with d * b <= r (lo * b <= r is given)
DigitSearch(r, b, lo, hi) ==
    IF lo = hi THEN lo
    ELSE LET mid == (lo + hi + 1) \div 2
         IN  IF NCmp(NMulSmall(b, mid), r) <= 0
             THEN DigitSearch(r, b, mid, hi)
             ELSE DigitSearch(r, b, lo, mid - 1)

RECURSIVE NDivFrom(_, _, _, _, _)
NDivFrom(a, b, i, q, r) ==
    IF i = 0 THEN <<NTrim(q), r>>
    ELSE LET r2 == NTrim(<<a[i]>> \o r)
             d  == DigitSearch(r2, b, 0, Base - 1)
         IN  NDivFrom(a, b, i - 1, <<d>> \o q, NSub(r2, NMulSmall(b, d)))
\* <<floor(a / b), a mod b>>, for b > 0: long division, limb by limb
NDivMod(a, b) == NDivFrom(a, b, Len(a), <<>>, <<>>)

(***************************************************************************)
(* JavaScript Numbers (IEEE-754 binary64).                                 *)
(***************************************************************************)
Precision == 53
ExpMin == 0 - 1074
ExpTop == 1023

FZero == [cls |-> "fin", sgn |-> 1, man |-> <<>>, exp |-> 0]
FInf(s) == [cls |-> "inf", sgn |-> s, man |-> <<>>, exp |-> 0]
FNaN == [cls |-> "nan", sgn |-> 1, man |-> <<>>, exp |-> 0]

IsNaN(x) == x.cls = "nan"
IsZero(x) == x.cls = "fin" /\ Len(x.man) = 0
\* Number.isFinite
IsFinite(x) == x.cls = "fin"

\* sgn * m * 2^q with m already within the significand width
Pack(s, m, q) ==
    IF Len(m) = 0 THEN FZero
    ELSE IF q + NBitLen(m) - 1 > ExpTop THEN FInf(s)
    ELSE [cls |-> "fin", sgn |-> s, man |-> m, exp |-> q]

\* The Number nearest to s * (n + f) * 2^e, where 0 <= f < 1 and f > 0 iff
\* sticky: round to nearest, ties to even.
RoundPack(s, n, e, sticky) ==
    IF Len(n) = 0 THEN FZero
    ELSE LET bl == NBitLen(n)
             q  == Max(e + bl - Precision, ExpMin)
             sh == q - e
         IN  IF sh <= 0 THEN Pack(s, NShl(n, 0 - sh), q)
             ELSE LET keep == NShr(n, sh)
                      st   == sticky \/ ~NLowZero(n, sh - 1)
                      up   == NBit(n, sh - 1) = 1 /\ (st \/ NBit(keep, 0) = 1)
                      m    == IF up THEN NAdd(keep, <<1>>) ELSE keep
                  IN  IF NBitLen(m) > Precision
                      THEN Pack(s, NShr(m, 1), q + 1)
                      ELSE Pack(s, m, q)

\* The Number with the value of the integer k
FInt(k) == RoundPack(IF k < 0 THEN -1 ELSE 1, NFromInt(IF k < 0 THEN 0 - k ELSE k), 0, FALSE)

FNeg(x) ==
    IF x.cls = "nan" \/ IsZero(x) THEN x
    ELSE [x EXCEPT !.sgn = 0 - x.sgn]

\* x * y
FMul(x, y) ==
    IF x.cls = "nan" \/ y.cls = "nan" THEN FNaN
    ELSE IF x.cls = "inf" \/ y.cls = "inf"
    THEN (IF IsZero(x) \/ IsZero(y) THEN FNaN ELSE FInf(x.sgn * y.sgn))
    ELSE RoundPack(x.sgn * y.sgn, NMul(x.man, y.man), x.exp + y.exp, FALSE)

\* x / y
FDiv(x, y) ==
    IF x.cls = "nan" \/ y.cls = "nan" THEN FNaN
    ELSE IF x.cls = "inf"
    THEN (IF y.cls = "inf" THEN FNaN ELSE FInf(x.sgn * y.sgn))
    ELSE IF y.cls = "inf" THEN FZero
    ELSE IF IsZero(y)
    THEN (IF IsZero(x) THEN FNaN ELSE FInf(x.sgn))
    ELSE IF IsZero(x) THEN FZero
    ELSE LET k  == Max(0, Precision + 2 + NBitLen(y.man) - NBitLen(x.man))
             qr == NDivMod(NShl(x.man, k), y.man)
         IN  RoundPack(x.sgn * y.sgn, qr[1], x.exp - y.exp - k, Len(qr[2]) # 0)

\* When the exponents of two operands differ by more than GapMax, the smaller
\* operand is below 1/128 of the larger one's last place: the exact sum, in
\* units of a quarter of that last place, is 4 * man plus a fraction (equal
\* signs) or 4 * man - 1 plus a fraction (opposite signs).
GapMax == Precision + 7
FarSum(m, same) == IF same THEN NShl(m, 2) ELSE NSub(NShl(m, 2), <<1>>)

\* x + y
FAdd(x, y) ==
    IF x.cls = "nan" \/ y.cls = "nan" THEN FNaN
    ELSE IF x.cls = "inf"
    THEN (IF y.cls = "inf" /\ y.sgn # x.sgn THEN FNaN ELSE x)
    ELSE IF y.cls = "inf" THEN y
    ELSE IF IsZero(x) THEN y
    ELSE IF IsZero(y) THEN x
    ELSE IF x.exp - y.exp > GapMax
    THEN RoundPack(x.sgn, FarSum(x.man, x.sgn = y.sgn), x.exp - 2, TRUE)
    ELSE IF y.exp - x.exp > GapMax
    THEN RoundPack(y.sgn, FarSum(y.man, x.sgn = y.sgn), y.exp - 2, TRUE)
    ELSE LET e == Min(x.exp, y.exp)
             a == NShl(x.man, x.exp - e)
             b == NShl(y.man, y.exp - e)
             c == NCmp(a, b)
         IN  IF x.sgn = y.sgn THEN RoundPack(x.sgn, NAdd(a, b), e, FALSE)
             ELSE IF c = 0 THEN FZero
             ELSE IF c > 0 THEN RoundPack(x.sgn, NSub(a, b), e, FALSE)
             ELSE RoundPack(y.sgn, NSub(b, a), e, FALSE)

\* x - y
FSub(x, y) == FAdd(x, FNeg(y))

\* x > 0
Gt0(x) == x.cls # "nan" /\ x.sgn = 1 /\ ~IsZero(x)
\* x <= 0
Le0(x) == x.cls # "nan" /\ (x.sgn = -1 \/ IsZero(x))
\* x < y and x <= y
FLt(x, y) == x.cls # "nan" /\ y.cls # "nan" /\ x # y /\ Gt0(FSub(y, x))
FLe(x, y) == x.cls # "nan" /\ y.cls # "nan" /\ (x = y \/ Gt0(FSub(y, x)))

\* |x|
FAbs(x) ==
    IF x.cls = "nan" THEN x ELSE [x EXCEPT !.sgn = 1]

\* Math.round: the integer nearest to x, halves rounded towards +Infinity
MathRound(x) ==
    IF x.cls # "fin" \/ IsZero(x) \/ x.exp >= 0 THEN x
    ELSE LET s    == 0 - x.exp
             half == NShl(NFromInt(1), s - 1)
         IN  IF s > Precision + 1 THEN FZero
             ELSE IF x.sgn = 1
             THEN RoundPack(1, NShr(NAdd(x.man, half), s), 0, FALSE)
             ELSE IF NCmp(x.man, half) <= 0 THEN FZero
             ELSE RoundPack(-1, NShr(NAdd(NSub(x.man, half),
                                          NSub(NShl(NFromInt(1), s), NFromInt(1))), s),
                            0, FALSE)

\* The decimal literal n/d (n, d integers, d > 0): the Number nearest to it
Dec(n, d) == FDiv(FInt(n), FInt(d))

(***************************************************************************)
(* Math.pow(x, y) for the exponents the engine passes: y a positive        *)
(* integer-valued Number (the number of monthly payments) below 2^20, 0,   *)
(* or NaN.  The power is computed by square-and-multiply on significands   *)
(* truncated to PowBits bits (with a sticky flag), and rounded once to a   *)
(* Number: the Number nearest to the exact power.  Other exponents (a      *)
(* fractional number of payments) are outside the model: the CASE has no   *)
(* OTHER arm, so reaching one stops the check instead of inventing a value.*)
(***************************************************************************)
PowBits == 2 * Precision - 1

ExtNorm(n, e, st) ==
    LET sh == NBitLen(n) - PowBits
    IN  IF sh > 0
        THEN [n |-> NShr(n, sh), e |-> e + sh, st |-> st \/ ~NLowZero(n, sh)]
        ELSE [n |-> n, e |-> e, st |-> st]

ExtMul(a, b) == ExtNorm(NMul(a.n, b.n), a.e + b.e, a.st \/ b.st)

RECURSIVE ExtPow(_, _)
ExtPow(x, k) ==
    IF k = 1 THEN x
    ELSE LET h == ExtPow(x, k \div 2)
         IN  IF Len(h.n) = 0 THEN h
             ELSE LET s == ExtMul(h, h)
                  IN  IF k % 2 = 1 THEN ExtMul(s, x) ELSE s

\* x is a finite Number with an integer value
IsInteger(x) ==
    /\ x.cls = "fin"
    /\ (IsZero(x) \/ x.exp >= 0 \/ NLowZero(x.man, 0 - x.exp))

\* x is an integer with 0 < x < 2^20
IsPaymentCount(x) ==
    /\ IsInteger(x) /\ Gt0(x)
    /\ x.exp + NBitLen(x.man) <= 20

\* the integer value of x, for IsPaymentCount(x)
ToInt(x) == NToInt(IF x.exp >= 0 THEN NShl(x.man, x.exp) ELSE NShr(x.man, 0 - x.exp))

MathPow(x, y) ==
    CASE y.cls = "nan" -> FNaN
      [] y.cls # "nan" /\ IsZero(y) -> FInt(1)
      [] y.cls # "nan" /\ ~IsZero(y) /\ x.cls = "nan" -> FNaN
      [] x.cls # "nan" /\ IsPaymentCount(y) ->
            LET k == ToInt(y)
                s == IF x.sgn = -1 /\ k % 2 = 1 THEN -1 ELSE 1
            IN  IF x.cls = "inf" THEN FInf(s)
                ELSE IF IsZero(x) THEN FZero
                ELSE LET r == ExtPow([n |-> x.man, e |-> x.exp, st |-> FALSE], k)
                     IN  RoundPack(s, r.n, r.e, r.st)

(***************************************************************************)
(* The engine.                                                             *)
(***************************************************************************)
F0 == FZero
F1 == FInt(1)
F12 == FInt(12)

\* mutant: the denominator without its "- 1"
PMTFormula_noMinusOne(principal, monthlyRate, totalPayments) ==
    FDiv(FMul(FMul(principal, monthlyRate), MathPow(FAdd(F1, monthlyRate), totalPayments)),
         MathPow(FAdd(F1, monthlyRate), totalPayments))

\* the amortization formula of calculatePMT
PMTFormula(principal, monthlyRate, totalPayments) ==
    FDiv(FMul(FMul(principal, monthlyRate), MathPow(FAdd(F1, monthlyRate), totalPayments)),
         FSub(MathPow(FAdd(F1, monthlyRate), totalPayments), F1))

\* mutant: the guard on years forgotten
calculatePMT_noYearsGuard(annualRate, years, principal) ==
    IF Le0(principal) THEN F0
    ELSE IF Le0(annualRate) THEN FDiv(principal, FMul(years, F12))
    ELSE PMTFormula(principal, FDiv(annualRate, F12), FMul(years, F12))

\* mutant: the straight-line amount per year instead of per month
calculatePMT_perYear(annualRate, years, principal) ==
    IF Le0(principal) \/ Le0(years) THEN F0
    ELSE IF Le0(annualRate) THEN FDiv(principal, years)
    ELSE PMTFormula(principal, FDiv(annualRate, F12), FMul(years, F12))

\* calculatePMT: the monthly payment of a loan
calculatePMT(annualRate, years, principal) ==
    IF Le0(principal) \/ Le0(years) THEN F0
    ELSE IF Le0(annualRate) THEN FDiv(principal, FMul(years, F12))
    ELSE PMTFormula(principal, FDiv(annualRate, F12), FMul(years, F12))

(***************************************************************************)
(* calculateInvestment.  The function is a sequence of const declarations; *)
(* c is its scope (the constants declared so far, by name) and each        *)
(* operator below is one declaration: it returns the scope with the new    *)
(* constant added.                                                         *)
(***************************************************************************)
\* a field of the inputs object, with its destructuring default
Field(inputs, name, default) ==
    IF name \in DOMAIN inputs THEN inputs[name] ELSE default

\* every absent field read as 0
Destructure_zeroDefaults(inputs) == [f \in
    { "precioCompra", "itpRate", "gastos", "gastosHipoteca", "costeReforma", "comision",
      "mobiliario", "cuotaAlquiler", "revalorizacion", "porcentajeFinanciado",
      "plazoHipoteca", "tipoInteres", "impuestosAnuales", "segurosAnuales",
      "comunidadAnual", "mantenimientoAnual", "periodosVacioAnual" } |-> Field(inputs, f, F0)]

\* const { precioCompra = 0, itpRate = 0.10, ... } = inputs
Destructure(inputs) ==
    [ precioCompra         |-> Field(inputs, "precioCompra", F0),
      itpRate              |-> Field(inputs, "itpRate", Dec(10, 100)),
      gastos               |-> Field(inputs, "gastos", F0),
      gastosHipoteca       |-> Field(inputs, "gastosHipoteca", F0),
      costeReforma         |-> Field(inputs, "costeReforma", F0),
      comision             |-> Field(inputs, "comision", F0),
      mobiliario           |-> Field(inputs, "mobiliario", F0),
      cuotaAlquiler        |-> Field(inputs, "cuotaAlquiler", F0),
      revalorizacion       |-> Field(inputs, "revalorizacion", F0),
      porcentajeFinanciado |-> Field(inputs, "porcentajeFinanciado", F0),
      plazoHipoteca        |-> Field(inputs, "plazoHipoteca", FInt(30)),
      tipoInteres          |-> Field(inputs, "tipoInteres", Dec(2, 100)),
      impuestosAnuales     |-> Field(inputs, "impuestosAnuales", F0),
      segurosAnuales       |-> Field(inputs, "segurosAnuales", F0),
      comunidadAnual       |-> Field(inputs, "comunidadAnual", F0),
      mantenimientoAnual   |-> Field(inputs, "mantenimientoAnual", F0),
      periodosVacioAnual   |-> Field(inputs, "periodosVacioAnual", F0) ]

\* the scope c with const name = v declared
Const(c, name, v) == c @@ (name :> v)

ImpuestoITP(c) ==
    Const(c, "impuestoITP",
          FMul(c.precioCompra, c.itpRate))

\* mutant: the mortgage set-up costs left out of the total
TotalCompra_withoutGastosHipoteca(c) ==
    Const(c, "totalCompra",
          FAdd(FAdd(FAdd(FAdd(FAdd(c.precioCompra, c.impuestoITP), c.gastos),
                         c.costeReforma), c.comision), c.mobiliario))

TotalCompra(c) ==
    Const(c, "totalCompra",
          FAdd(FAdd(FAdd(FAdd(FAdd(FAdd(c.precioCompra, c.impuestoITP), c.gastos),
                   c.gastosHipoteca), c.costeReforma), c.comision), c.mobiliario))

\* mutant: the financed fraction applied to the total purchase cost
Hipoteca_ofTotalCompra(c) ==
    Const(c, "hipoteca",
          FMul(c.totalCompra, c.porcentajeFinanciado))

Hipoteca(c) ==
    Const(c, "hipoteca",
          FMul(c.precioCompra, c.porcentajeFinanciado))

CapitalAportar(c) ==
    Const(c, "capitalAportar",
          FSub(c.totalCompra, c.hipoteca))

CuotaHipotecaMensual(c) ==
    Const(c, "cuotaHipotecaMensual",
          calculatePMT(c.tipoInteres, c.plazoHipoteca, c.hipoteca))

CuotaHipotecaAnual(c) ==
    Const(c, "cuotaHipotecaAnual",
          FMul(c.cuotaHipotecaMensual, F12))

\* mutant: the average interest without its guard
InteresesPromedioMensual_unguarded(c) ==
    Const(c, "interesesPromedioMensual",
          FDiv(FSub(FMul(FMul(c.cuotaHipotecaMensual, F12), c.plazoHipoteca), c.hipoteca),
               FMul(c.plazoHipoteca, F12)))

InteresesPromedioMensual(c) ==
    Const(c, "interesesPromedioMensual",
          IF Gt0(c.hipoteca) /\ Gt0(c.plazoHipoteca)
          THEN FDiv(FSub(FMul(FMul(c.cuotaHipotecaMensual, F12), c.plazoHipoteca), c.hipoteca),
                    FMul(c.plazoHipoteca, F12))
          ELSE F0)

InteresesPromedioAnual(c) ==
    Const(c, "interesesPromedioAnual",
          FMul(c.interesesPromedioMensual, F12))

\* mutant: the whole payment counted as principal
AmortizacionPromedioMensual_wholePayment(c) ==
    Const(c, "amortizacionPromedioMensual",
          c.cuotaHipotecaMensual)

AmortizacionPromedioMensual(c) ==
    Const(c, "amortizacionPromedioMensual",
          FSub(c.cuotaHipotecaMensual, c.interesesPromedioMensual))

AmortizacionPromedioAnual(c) ==
    Const(c, "amortizacionPromedioAnual",
          FMul(c.amortizacionPromedioMensual, F12))

TotalGastosMensual(c) ==
    Const(c, "totalGastosMensual",
          FDiv(FAdd(FAdd(FAdd(FAdd(c.impuestosAnuales, c.segurosAnuales), c.comunidadAnual),
                        c.mantenimientoAnual), c.periodosVacioAnual), F12))

TotalGastosAnual(c) ==
    Const(c, "totalGastosAnual",
          FAdd(FAdd(FAdd(FAdd(c.impuestosAnuales, c.segurosAnuales), c.comunidadAnual),
                   c.mantenimientoAnual), c.periodosVacioAnual))

IngresoAnual(c) ==
    Const(c, "ingresoAnual",
          FMul(c.cuotaAlquiler, F12))

\* mutant: the gross yield without its guard
RentabilidadBruta_unguarded(c) ==
    Const(c, "rentabilidadBruta",
          FDiv(c.ingresoAnual, c.totalCompra))

RentabilidadBruta(c) ==
    Const(c, "rentabilidadBruta",
          IF Gt0(c.totalCompra) THEN FDiv(c.ingresoAnual, c.totalCompra) ELSE F0)

RentabilidadNeta(c) ==
    Const(c, "rentabilidadNeta",
          IF Gt0(c.totalCompra)
          THEN FDiv(FSub(FSub(c.ingresoAnual, c.totalGastosAnual), c.interesesPromedioAnual),
                    c.totalCompra)
          ELSE F0)

\* mutant: the monthly cash flow clamped at 0
CashFlowMensual_clamped(c) ==
    Const(c, "cashFlowMensual",
          IF Gt0(FSub(FSub(c.cuotaAlquiler, c.cuotaHipotecaMensual), c.totalGastosMensual))
          THEN FSub(FSub(c.cuotaAlquiler, c.cuotaHipotecaMensual), c.totalGastosMensual)
          ELSE F0)

CashFlowMensual(c) ==
    Const(c, "cashFlowMensual",
          FSub(FSub(c.cuotaAlquiler, c.cuotaHipotecaMensual), c.totalGastosMensual))

CashFlowAnual(c) ==
    Const(c, "cashFlowAnual",
          FMul(c.cashFlowMensual, F12))

Per(c) ==
    Const(c, "per",
          IF Gt0(c.ingresoAnual) THEN FDiv(c.totalCompra, c.ingresoAnual) ELSE F0)

PorcentajeHipotecaAlquiler(c) ==
    Const(c, "porcentajeHipotecaAlquiler",
          IF Gt0(c.cuotaAlquiler) THEN FDiv(c.cuotaHipotecaMensual, c.cuotaAlquiler) ELSE F0)

\* mutant: the cash-flow to rent ratio without its guard
CashFlowAlquiler_unguarded(c) ==
    Const(c, "cashFlowAlquiler",
          FDiv(c.cashFlowMensual, c.cuotaAlquiler))

CashFlowAlquiler(c) ==
    Const(c, "cashFlowAlquiler",
          IF Gt0(c.cuotaAlquiler) THEN FDiv(c.cashFlowMensual, c.cuotaAlquiler) ELSE F0)

CashOnCash(c) ==
    Const(c, "cashOnCash",
          IF Gt0(c.capitalAportar)
          THEN FDiv(FMul(F12, c.cashFlowMensual), c.capitalAportar)
          ELSE F0)

\* mutant: the average principal repayment left out of roce
Roce_withoutAmortizacion(c) ==
    Const(c, "roce",
          IF Gt0(c.capitalAportar)
          THEN FDiv(FMul(F12, c.cashFlowMensual), c.capitalAportar)
          ELSE F0)

Roce(c) ==
    Const(c, "roce",
          IF Gt0(c.capitalAportar)
          THEN FDiv(FMul(F12, FAdd(c.cashFlowMensual, c.amortizacionPromedioMensual)),
                    c.capitalAportar)
          ELSE F0)

\* mutant: the appreciation rate added as a percentage
RentabilidadTotal_percentRevalorizacion(c) ==
    Const(c, "rentabilidadTotal",
          IF Gt0(c.capitalAportar)
          THEN FAdd(FDiv(FSub(FSub(c.ingresoAnual, c.totalGastosAnual), c.interesesPromedioAnual),
                         c.capitalAportar), FMul(c.revalorizacion, FInt(100)))
          ELSE F0)

\* mutant: the appreciation kept when the equity guard fails
RentabilidadTotal_keepsRevalorizacion(c) ==
    Const(c, "rentabilidadTotal",
          IF Gt0(c.capitalAportar)
          THEN FAdd(FDiv(FSub(FSub(c.ingresoAnual, c.totalGastosAnual), c.interesesPromedioAnual),
                         c.capitalAportar), c.revalorizacion)
          ELSE c.revalorizacion)

RentabilidadTotal(c) ==
    Const(c, "rentabilidadTotal",
          IF Gt0(c.capitalAportar)
          THEN FAdd(FDiv(FSub(FSub(c.ingresoAnual, c.totalGastosAnual), c.interesesPromedioAnual),
                         c.capitalAportar), c.revalorizacion)
          ELSE F0)

ResultFields == { "impuestoITP", "totalCompra", "hipoteca",
                  "capitalAportar", "cuotaHipotecaMensual", "cuotaHipotecaAnual",
                  "interesesPromedioMensual", "interesesPromedioAnual", "amortizacionPromedioMensual",
                  "amortizacionPromedioAnual", "totalGastosMensual", "totalGastosAnual",
                  "ingresoAnual", "rentabilidadBruta", "rentabilidadNeta",
                  "cashFlowMensual", "cashFlowAnual", "per",
                  "porcentajeHipotecaAlquiler", "cashFlowAlquiler", "cashOnCash",
                  "roce", "rentabilidadTotal" }

\* return { impuestoITP, totalCompra, ... }
Return(c) ==
    [ impuestoITP |-> c.impuestoITP, totalCompra |-> c.totalCompra, hipoteca |-> c.hipoteca,
      capitalAportar |-> c.capitalAportar,
      cuotaHipotecaMensual |-> c.cuotaHipotecaMensual,
      cuotaHipotecaAnual |-> c.cuotaHipotecaAnual,
      interesesPromedioMensual |-> c.interesesPromedioMensual,
      interesesPromedioAnual |-> c.interesesPromedioAnual,
      amortizacionPromedioMensual |-> c.amortizacionPromedioMensual,
      amortizacionPromedioAnual |-> c.amortizacionPromedioAnual,
      totalGastosMensual |-> c.totalGastosMensual, totalGastosAnual |-> c.totalGastosAnual,
      ingresoAnual |-> c.ingresoAnual, rentabilidadBruta |-> c.rentabilidadBruta,
      rentabilidadNeta |-> c.rentabilidadNeta, cashFlowMensual |-> c.cashFlowMensual,
      cashFlowAnual |-> c.cashFlowAnual, per |-> c.per,
      porcentajeHipotecaAlquiler |-> c.porcentajeHipotecaAlquiler,
      cashFlowAlquiler |-> c.cashFlowAlquiler, cashOnCash |-> c.cashOnCash,
      roce |-> c.roce, rentabilidadTotal |-> c.rentabilidadTotal ]

\* the purchase and financing constants, up to the monthly payment
Financing(inputs) ==
    CuotaHipotecaMensual(CapitalAportar(Hipoteca(TotalCompra(ImpuestoITP(
    Destructure(inputs))))))

\* the mortgage averages, expenses and income, declared in scope c
Averages(c) ==
    IF DOMAIN c = {} THEN c     \* (c is evaluated before the declarations that follow)
    ELSE IngresoAnual(TotalGastosAnual(TotalGastosMensual(AmortizacionPromedioAnual(
         AmortizacionPromedioMensual(InteresesPromedioAnual(InteresesPromedioMensual(
         CuotaHipotecaAnual(c))))))))

\* the performance indicators, declared in scope c
Indicators(c) ==
    IF DOMAIN c = {} THEN c
    ELSE RentabilidadTotal(Roce(CashOnCash(CashFlowAlquiler(PorcentajeHipotecaAlquiler(Per(
         CashFlowAnual(CashFlowMensual(RentabilidadNeta(RentabilidadBruta(c))))))))))

\* calculateInvestment: all the metrics of one inputs object
calculateInvestment(inputs) ==
    Return(Indicators(Averages(Financing(inputs))))

\* an argument left out of a call
Undefined == [cls |-> "undefined"]

\* a parameter with a default value: (v = d)
Default(v, d) == IF v = Undefined THEN d ELSE v

\* the template literal `Año ${year}`
YearLabel(year) == "Año " \o ToString(year)

\* mutant: the yearly figure reported without rounding
Point_unrounded(year, currentRent, accumulatedCashFlow) ==
    [ year        |-> YearLabel(year),
      cashFlow    |-> currentRent,
      accumulated |-> MathRound(accumulatedCashFlow) ]

\* the object pushed for one year
Point(year, currentRent, accumulatedCashFlow) ==
    [ year        |-> YearLabel(year),
      cashFlow    |-> MathRound(currentRent),
      accumulated |-> MathRound(accumulatedCashFlow) ]

\* mutant: the revaluation applied in year 1 as well
Revalued_fromYear1(year, currentRent, revalorizacion) ==
    FMul(currentRent, FAdd(F1, revalorizacion))

\* currentRent after the revaluation of the year
Revalued(year, currentRent, revalorizacion) ==
    IF year > 1 THEN FMul(currentRent, FAdd(F1, revalorizacion)) ELSE currentRent

RECURSIVE ProjectionLoop(_, _, _, _, _, _)
\* for (let year = 1; year <= years; year++) { ... } return projection
ProjectionLoop(year, years, revalorizacion, currentRent, accumulatedCashFlow, projection) ==
    IF ~FLe(FInt(year), years) THEN projection
    ELSE IF currentRent.cls = "undefined" \/ accumulatedCashFlow.cls = "undefined"
    THEN projection     \* (never: both are Numbers, evaluated before the year's step)
    ELSE ProjectionLoop(year + 1, years, revalorizacion,
                        Revalued(year, currentRent, revalorizacion),
                        FAdd(accumulatedCashFlow, Revalued(year, currentRent, revalorizacion)),
                        Append(projection,
                               Point(year, Revalued(year, currentRent, revalorizacion),
                                     FAdd(accumulatedCashFlow,
                                          Revalued(year, currentRent, revalorizacion)))))

\* mutant: the loop started at year 0
generateCashFlowProjection_fromYear0(results, revalorizacion, years) ==
    ProjectionLoop(0, Default(years, FInt(10)), Default(revalorizacion, F0),
                   FMul(results.cashFlowMensual, F12), F0, <<>>)

\* generateCashFlowProjection: the yearly points of the chart
generateCashFlowProjection(results, revalorizacion, years) ==
    ProjectionLoop(1, Default(years, FInt(10)), Default(revalorizacion, F0),
                   FMul(results.cashFlowMensual, F12), F0, <<>>)

(***************************************************************************)
(* The ITP table (data/itpTable.js).                                       *)
(***************************************************************************)
\* the own properties of the object literal itpTable
itpTable ==
    ("Andalucía" :> Dec(8, 100)) @@ ("Aragón" :> Dec(8, 100)) @@ ("Asturias" :> Dec(8, 100)) @@
    ("Baleares" :> Dec(8, 100)) @@ ("Canarias" :> Dec(65, 1000)) @@
    ("Cantabria" :> Dec(10, 100)) @@ ("Castilla - La Mancha" :> Dec(9, 100)) @@
    ("Castilla León" :> Dec(8, 100)) @@ ("Cataluña" :> Dec(10, 100)) @@
    ("Ceuta" :> Dec(6, 100)) @@ ("Comunidad de Madrid" :> Dec(6, 100)) @@
    ("Comunidad Valenciana" :> Dec(10, 100)) @@ ("Extremadura" :> Dec(8, 100)) @@
    ("Galicia" :> Dec(9, 100)) @@ ("La Rioja" :> Dec(7, 100)) @@ ("Melilla" :> Dec(6, 100)) @@
    ("Murcia" :> Dec(8, 100)) @@ ("Navarra" :> Dec(6, 100)) @@ ("País Vasco" :> Dec(4, 100))

\* Object.keys(itpTable)
communities == DOMAIN itpTable

\* the properties an object literal inherits from Object.prototype
ObjectPrototype ==
    { "constructor", "toString", "toLocaleString", "valueOf", "hasOwnProperty",
      "isPrototypeOf", "propertyIsEnumerable", "__proto__" }

\* the value of an inherited property: a function, or the prototype object
Inherited(key) ==
    IF key = "__proto__" THEN [cls |-> "object"] ELSE [cls |-> "function", name |-> key]

\* obj[key] for an object literal: own property, inherited property, undefined
GetProperty(obj, key) ==
    IF key \in DOMAIN obj THEN obj[key]
    ELSE IF key \in ObjectPrototype THEN Inherited(key)
    ELSE Undefined

\* typeof v = 'number'
IsNumber(v) == v.cls \in {"fin", "inf", "nan"}

\* the truthiness that || tests
Truthy(v) ==
    IF v = Undefined THEN FALSE
    ELSE IF IsNumber(v) THEN ~IsNaN(v) /\ ~IsZero(v)
    ELSE TRUE

\* a || b
Or(a, b) == IF Truthy(a) THEN a ELSE b

\* getItpRate: itpTable[community] || 0.08
getItpRate(community) == Or(GetProperty(itpTable, community), Dec(8, 100))

(***************************************************************************)
(* The callers' inputs.  A call is drawn in the initial state and applied  *)
(* by the action of the function called.                                   *)
(***************************************************************************)
\* the literal 1e-17
Tiny == FDiv(F1, FMul(FInt(1000000000), FInt(100000000)))

MoneyFields == { "precioCompra", "gastos", "gastosHipoteca", "costeReforma", "comision",
                 "mobiliario", "cuotaAlquiler", "impuestosAnuales", "segurosAnuales",
                 "comunidadAnual", "mantenimientoAnual", "periodosVacioAnual" }
RateFields == { "itpRate", "revalorizacion", "tipoInteres" }
Fields == MoneyFields \cup RateFields \cup { "porcentajeFinanciado", "plazoHipoteca" }

\* defaultInputs of the App, with itpRate = getItpRate('Cataluña')
DefaultInputs ==
    [ precioCompra |-> FInt(105000), itpRate |-> Dec(10, 100), gastos |-> FInt(4000),
      gastosHipoteca |-> F0, costeReforma |-> FInt(20000), comision |-> FInt(1500),
      mobiliario |-> FInt(4000), cuotaAlquiler |-> FInt(1100), revalorizacion |-> Dec(2, 100),
      porcentajeFinanciado |-> Dec(5, 10), plazoHipoteca |-> FInt(30),
      tipoInteres |-> Dec(2, 100), impuestosAnuales |-> FInt(800),
      segurosAnuales |-> FInt(300), comunidadAnual |-> FInt(300),
      mantenimientoAnual |-> F0, periodosVacioAnual |-> F0 ]

\* every field present and 0
ZeroInputs == [f \in Fields |-> F0]

\* an object without any field: every destructuring default applies
EmptyInputs == [f \in {} |-> F0]

\* a purchase financed beyond its total cost
OverFinanced ==
    [ZeroInputs EXCEPT !.precioCompra = FInt(100000), !.itpRate = Dec(10, 100),
                       !.porcentajeFinanciado = Dec(12, 10), !.cuotaAlquiler = FInt(800),
                       !.revalorizacion = Dec(3, 100), !.plazoHipoteca = FInt(20),
                       !.tipoInteres = Dec(3, 100)]

BaseInputs == { DefaultInputs, EmptyInputs, OverFinanced }

\* the values an edit gives a field
FieldValues(f) ==
    IF f \in MoneyFields THEN { F0, FInt(-5000), Dec(25000075, 100) }
    ELSE IF f \in RateFields THEN { F0, Dec(-1, 100), Tiny, Dec(35, 1000) }
    ELSE IF f = "porcentajeFinanciado" THEN { F0, F1, Dec(-5, 10), Dec(15, 10) }
    ELSE { F0, FInt(-5), Dec(5, 10), FInt(15) }

\* inputs with field f set to v
Override(inputs, f, v) == (f :> v) @@ inputs

MaxEdits == 1

RECURSIVE Edited(_)
\* the inputs at most k edits away from a base object
Edited(k) ==
    IF k = 0 THEN BaseInputs
    ELSE LET prev == Edited(k - 1)
         IN  prev \cup UNION { { Override(r, f, v) : v \in FieldValues(f) } :
                               r \in prev, f \in Fields }

\* the purchase of the App's defaults without annual expenses
ScenarioInputs ==
    [ precioCompra |-> FInt(105000), itpRate |-> Dec(10, 100), gastos |-> FInt(4000),
      costeReforma |-> FInt(20000), comision |-> FInt(1500), mobiliario |-> FInt(4000),
      cuotaAlquiler |-> FInt(1100), porcentajeFinanciado |-> Dec(5, 10),
      plazoHipoteca |-> FInt(30), tipoInteres |-> Dec(2, 100), revalorizacion |-> Dec(2, 100) ]

\* half of a price of 50000 lent for 30 years without interest
InterestFree ==
    [ precioCompra |-> FInt(50000), porcentajeFinanciado |-> Dec(5, 10),
      plazoHipoteca |-> FInt(30), tipoInteres |-> F0, cuotaAlquiler |-> FInt(500) ]

\* a financed purchase that leaves the tax rate, the term and the interest out
Sparse ==
    [ precioCompra |-> FInt(100000), porcentajeFinanciado |-> Dec(8, 10),
      cuotaAlquiler |-> FInt(700) ]

Scenarios == { ScenarioInputs, InterestFree, ZeroInputs, Sparse }

InvestmentCalls == { [inputs |-> r] : r \in Edited(MaxEdits) \cup Scenarios }

RateSet == { F0, Dec(-1, 100), Dec(2, 100), Tiny, FInt(12) }
YearSet == { F0, FInt(-1), Dec(5, 10), F1, FInt(30) }
PrincipalSet == { F0, FInt(-100), Dec(1, 100), FInt(1000), FInt(52500) }

PMTCalls == [annualRate : RateSet, years : YearSet, principal : PrincipalSet]

CashFlowSet == { FInt(100), Dec(10004, 100), Dec(-25050, 100), F0 }
GrowthSet == { Undefined, F0, Dec(2, 100), Dec(-5, 100) }

MaxHorizon == 3

HorizonSet == { Undefined, Dec(25, 10) } \cup { FInt(k) : k \in -1..MaxHorizon }

ProjectionCalls ==
    [ results : { [cashFlowMensual |-> x] : x \in CashFlowSet },
      revalorizacion : GrowthSet, years : HorizonSet ]

\* the calls a caller makes one after the other
\* locality names: the table's keys, unknown names, names of inherited properties
CommunityNames ==
    communities \cup { "Madrid", "", "undefined", "constructor", "toString", "__proto__" }

ItpCalls == [community : CommunityNames]

SeqCalls ==
    { [fn |-> "getItpRate", args |-> [community |-> "Cataluña"]],
      [fn |-> "calculatePMT",
       args |-> [annualRate |-> Dec(2, 100), years |-> FInt(30), principal |-> FInt(52500)]],
      [fn |-> "calculatePMT",
       args |-> [annualRate |-> F0, years |-> FInt(30), principal |-> FInt(52500)]],
      [fn |-> "calculateInvestment", args |-> [inputs |-> DefaultInputs]],
      [fn |-> "calculateInvestment", args |-> [inputs |-> ScenarioInputs]],
      [fn |-> "generateCashFlowProjection",
       args |-> [results |-> [cashFlowMensual |-> FInt(100)],
                 revalorizacion |-> Dec(2, 100), years |-> FInt(3)]],
      [fn |-> "generateCashFlowProjection",
       args |-> [results |-> [cashFlowMensual |-> Dec(10004, 100)],
                 revalorizacion |-> Undefined, years |-> Undefined]] }

MaxCalls == 3

VARIABLES
    done,   \* the calls that have returned, in order, each with its result
    fn,     \* the function called
    args,   \* its arguments
    ret,    \* its return value, once pc = "return"
    pc,     \* "call" before the call, "return" after it, "mounted" for the App
    inputs, \* the App's input state, as of the last render
    ref,    \* the identities of the current inputs and results objects
    queue,  \* the state updates enqueued by setInputs since the last render
    results,            \* the useMemo cell of results: dependencies and value
    cashFlowProjection, \* the useMemo cell of cashFlowProjection
    event,  \* the last handler call (history)
    applied \* the inputs before the last render and the updates it applied (history)

callVars == <<done, fn, args, ret, pc>>
appVars == <<inputs, ref, queue, results, cashFlowProjection, event, applied>>
vars == <<done, fn, args, ret, pc,
          inputs, ref, queue, results, cashFlowProjection, event, applied>>

\* no App is mounted while the exported functions are called directly
Unmounted ==
    /\ inputs = <<>> /\ ref = <<>> /\ queue = <<>>
    /\ results = <<>> /\ cashFlowProjection = <<>>
    /\ event = <<>> /\ applied = <<>>

Init ==
    /\ pc = "call"
    /\ ret = <<>>
    /\ done = <<>>
    /\ Unmounted
    /\ \/ fn = "calculatePMT" /\ args \in PMTCalls
       \/ fn = "calculateInvestment" /\ args \in InvestmentCalls
       \/ fn = "generateCashFlowProjection" /\ args \in ProjectionCalls
       \/ fn = "getItpRate" /\ args \in ItpCalls

\* the call returns r
Returns(r) ==
    /\ ret' = r
    /\ pc' = "return"
    /\ done' = Append(done, [fn |-> fn, args |-> args, ret |-> r])
    /\ UNCHANGED <<fn, args>>
    /\ UNCHANGED appVars

CalculatePMT ==
    /\ pc = "call" /\ fn = "calculatePMT"
    /\ Returns(calculatePMT(args.annualRate, args.years, args.principal))

\* the call writes the defaults it applied back into the caller's object
CalculateInvestment_fillsDefaults ==
    /\ pc = "call" /\ fn = "calculateInvestment"
    /\ ret' = calculateInvestment(args.inputs)
    /\ pc' = "return"
    /\ args' = [inputs |-> Destructure(args.inputs)]
    /\ done' = Append(done, [fn |-> fn, args |-> args, ret |-> ret'])
    /\ UNCHANGED fn
    /\ UNCHANGED appVars

CalculateInvestment ==
    /\ pc = "call" /\ fn = "calculateInvestment"
    /\ Returns(calculateInvestment(args.inputs))

\* mutant: accumulatedCashFlow kept from the projection that returned just before
GenerateCashFlowProjection_retained ==
    /\ pc = "call" /\ fn = "generateCashFlowProjection"
    /\ Returns(ProjectionLoop(1, Default(args.years, FInt(10)),
                              Default(args.revalorizacion, F0),
                              FMul(args.results.cashFlowMensual, F12),
                              IF done # <<>> /\ done[Len(done)].fn = fn
                                 /\ done[Len(done)].ret # <<>>
                              THEN done[Len(done)].ret[Len(done[Len(done)].ret)].accumulated
                              ELSE F0,
                              <<>>))

GenerateCashFlowProjection ==
    /\ pc = "call" /\ fn = "generateCashFlowProjection"
    /\ Returns(generateCashFlowProjection(args.results, args.revalorizacion, args.years))

GetItpRate ==
    /\ pc = "call" /\ fn = "getItpRate"
    /\ Returns(getItpRate(args.community))

Next == CalculatePMT \/ CalculateInvestment \/ GenerateCashFlowProjection \/ GetItpRate

Spec == Init /\ [][Next]_vars

\* A caller that makes up to MaxCalls calls, one after the other.
InitCalls ==
    /\ pc = "call"
    /\ ret = <<>>
    /\ done = <<>>
    /\ Unmounted
    /\ \E c \in SeqCalls : fn = c.fn /\ args = c.args

CallAgain ==
    /\ pc = "return" /\ Len(done) < MaxCalls
    /\ \E c \in SeqCalls : fn' = c.fn /\ args' = c.args
    /\ pc' = "call"
    /\ ret' = <<>>
    /\ UNCHANGED done
    /\ UNCHANGED appVars

NextCalls == Next \/ CallAgain

SpecCalls == InitCalls /\ [][NextCalls]_vars

(***************************************************************************)
(* The App (App.jsx): the input state, its handlers and the memoised       *)
(* results.  A text typed into a field is a sequence of characters.        *)
(***************************************************************************)
DigitValue ==
    ("0" :> 0) @@ ("1" :> 1) @@ ("2" :> 2) @@ ("3" :> 3) @@ ("4" :> 4) @@
    ("5" :> 5) @@ ("6" :> 6) @@ ("7" :> 7) @@ ("8" :> 8) @@ ("9" :> 9)

\* the character at position i of text is one of set
At(text, i, set) == i <= Len(text) /\ text[i] \in set

RECURSIVE SkipWhiteSpace(_, _)
\* the first position from i on that holds no white space
SkipWhiteSpace(text, i) ==
    IF At(text, i, {" "}) THEN SkipWhiteSpace(text, i + 1) ELSE i

RECURSIVE DigitsEnd(_, _)
\* the position after the digits that start at i
DigitsEnd(text, i) ==
    IF At(text, i, DOMAIN DigitValue) THEN DigitsEnd(text, i + 1) ELSE i

RECURSIVE DigitsValue(_, _, _, _)
\* the decimal value of the digits at positions i .. j - 1, after acc
DigitsValue(text, i, j, acc) ==
    IF i >= j THEN acc ELSE DigitsValue(text, i + 1, j, acc * 10 + DigitValue[text[i]])

RECURSIVE Pow10(_)
Pow10(k) == IF k = 0 THEN 1 ELSE 10 * Pow10(k - 1)

\* n * 10^p, rounded once
Scaled(n, p) ==
    IF p >= 0 THEN FMul(FInt(n), FInt(Pow10(p))) ELSE FDiv(FInt(n), FInt(Pow10(0 - p)))

\* the number of digits after the decimal point, for an integer part ending
\* before c and a fraction ending before d
FracLen(c, d) == IF d > c THEN d - c - 1 ELSE 0

\* the value of the literal: integer digits at b .. c - 1, fraction digits up to
\* d - 1, exponent digits at e .. f - 1 with sign s; NaN without any digit
Literal(text, b, c, d, s, e, f) ==
    IF (c - b) + FracLen(c, d) = 0 THEN FNaN
    ELSE Scaled(DigitsValue(text, b, c, 0) * Pow10(FracLen(c, d))
                    + DigitsValue(text, c + 1, d, 0),
                s * DigitsValue(text, e, f, 0) - FracLen(c, d))

\* the exponent part after position d, if it has digits
Exponent(text, b, c, d) ==
    IF ~At(text, d, {"e", "E"}) THEN Literal(text, b, c, d, 1, d, d)
    ELSE IF At(text, d + 1, {"-"})
    THEN Literal(text, b, c, d, 0 - 1, d + 2, DigitsEnd(text, d + 2))
    ELSE IF At(text, d + 1, {"+"})
    THEN Literal(text, b, c, d, 1, d + 2, DigitsEnd(text, d + 2))
    ELSE Literal(text, b, c, d, 1, d + 1, DigitsEnd(text, d + 1))

\* the fraction part after the integer digits that end before c
Fraction(text, b, c) ==
    Exponent(text, b, c, IF At(text, c, {"."}) THEN DigitsEnd(text, c + 1) ELSE c)

\* the unsigned literal at position b
Unsigned(text, b) ==
    IF b + 7 <= Len(text)
       /\ SubSeq(text, b, b + 7) = <<"I", "n", "f", "i", "n", "i", "t", "y">>
    THEN FInf(1)
    ELSE Fraction(text, b, DigitsEnd(text, b))

\* the optional sign at position a
Signed(text, a) ==
    IF At(text, a, {"-"}) THEN FNeg(Unsigned(text, a + 1))
    ELSE IF At(text, a, {"+"}) THEN Unsigned(text, a + 1)
    ELSE Unsigned(text, a)

\* parseFloat: the longest prefix that is a decimal literal, after leading white
\* space; NaN without one.  (For literals of at most 9 digits and decimal
\* exponents within -9 .. 9, where one correctly rounded operation gives the
\* nearest Number.)
ParseFloat(text) == Signed(text, SkipWhiteSpace(text, 1))

\* defaultInputs
defaultInputs ==
    [ direccion |-> "Calle xxx", comunidad |-> "Cataluña",
      precioCompra |-> FInt(105000), gastos |-> FInt(4000), gastosHipoteca |-> F0,
      costeReforma |-> FInt(20000), comision |-> FInt(1500), mobiliario |-> FInt(4000),
      cuotaAlquiler |-> FInt(1100), revalorizacion |-> Dec(2, 100),
      porcentajeFinanciado |-> Dec(5, 10), plazoHipoteca |-> FInt(30),
      tipoInteres |-> Dec(2, 100), impuestosAnuales |-> FInt(800),
      segurosAnuales |-> FInt(300), comunidadAnual |-> FInt(300),
      mantenimientoAnual |-> F0, periodosVacioAnual |-> F0 ]

\* prev => ({ ...prev, [field]: value })
Updater(field, value) == [kind |-> "function", field |-> field, value |-> value]

\* the state after one enqueued update: an updater function is applied to the
\* state before it, any other value replaces the state
Reduce(prev, update) ==
    IF update.kind = "function" THEN Override(prev, update.field, update.value)
    ELSE update.state

RECURSIVE ReduceAll(_, _)
\* the state after the enqueued updates, applied in order
ReduceAll(updates, prev) ==
    IF updates = <<>> THEN prev
    ELSE ReduceAll(Tail(updates), Reduce(prev, Head(updates)))

\* { ...inputs, itpRate }
WithItpRate(state, itpRate) == Override(state, "itpRate", itpRate)

\* the results of a render, computed afresh
Results(state, itpRate) == calculateInvestment(WithItpRate(state, itpRate))

\* the projection of a render, computed afresh
CashFlowProjection(value, state) ==
    generateCashFlowProjection(value, state.revalorizacion, FInt(10))

\* useMemo: the cell is kept while its dependencies are the same
UseMemo(cell, deps, value) ==
    IF cell.deps = deps THEN cell ELSE [deps |-> deps, value |-> value]

\* the dependencies of the two memoised values; objects are compared by identity
ResultsDeps(inputsRef, itpRate) == <<inputsRef, itpRate>>

\* mutant: the projection depends on the revaluation rate only
ProjectionDeps_withoutResults(resultsRef, state) == <<state.revalorizacion>>

ProjectionDeps(resultsRef, state) == <<resultsRef, state.revalorizacion>>

MaxAppEdits == 2

\* the texts typed into the fields that handleNumberInput serves
NumberInputs ==
    { [field |-> "precioCompra", text |-> <<"1", "5", "0", "0", "0", "0">>],
      [field |-> "cuotaAlquiler", text |-> <<" ", "9", "5", "0", ".", "5">>],
      [field |-> "plazoHipoteca", text |-> <<"a", "b", "c">>],
      [field |-> "gastos", text |-> <<"-", "2", "0", "e", "1", "x">>] }

\* the texts typed into the fields that handlePercentInput serves
PercentInputs ==
    { [field |-> "porcentajeFinanciado", text |-> <<"1", "5", "0">>],
      [field |-> "revalorizacion", text |-> <<>>] }

\* the option of the select chosen
DirectInputs ==
    { [field |-> "comunidad", text |-> "Canarias"] }

\* a useMemo cell before the first render
NoCell == [deps |-> <<>>, value |-> <<>>]

\* the App before its first render: useState(defaultInputs)
InitApp ==
    /\ pc = "mount" /\ fn = "App" /\ args = <<>> /\ ret = <<>> /\ done = <<>>
    /\ inputs = defaultInputs
    /\ ref = [inputs |-> 0, results |-> 0]
    /\ queue = <<>>
    /\ results = NoCell
    /\ cashFlowProjection = NoCell
    /\ event = [handler |-> "none"]
    /\ applied = [before |-> defaultInputs, batch |-> <<>>]

\* mutant: the new state built from the inputs of the render the handler closes over
handleInputChange_staleClosure(field, value) ==
    queue' = Append(queue, [kind |-> "object", field |-> field, value |-> value,
                            state |-> Override(inputs, field, value)])

\* handleInputChange: setInputs(prev => ({ ...prev, [field]: value }))
handleInputChange(field, value) ==
    queue' = Append(queue, Updater(field, value))

\* mutant: the parsed value stored as it is
handleNumberInput_withoutFallback(field, value) ==
    handleInputChange(field, ParseFloat(value))

handleNumberInput(field, value) ==
    handleInputChange(field, Or(ParseFloat(value), F0))

handlePercentInput(field, value) ==
    handleInputChange(field, FDiv(Or(ParseFloat(value), F0), FInt(100)))

\* a handler may run: the App is mounted (and the number of edits is bounded)
CanEdit == pc = "mounted" /\ ref.inputs + Len(queue) < MaxAppEdits

\* the handler call is recorded; nothing but the queue changes before the render
Handled(handler, e) ==
    /\ event' = [handler |-> handler, field |-> e.field, text |-> e.text]
    /\ UNCHANGED <<inputs, ref, results, cashFlowProjection, applied>>
    /\ UNCHANGED callVars

HandleInputChange ==
    /\ CanEdit
    /\ \E e \in DirectInputs :
          handleInputChange(e.field, e.text) /\ Handled("handleInputChange", e)

HandleNumberInput ==
    /\ CanEdit
    /\ \E e \in NumberInputs :
          handleNumberInput(e.field, e.text) /\ Handled("handleNumberInput", e)

HandlePercentInput ==
    /\ CanEdit
    /\ \E e \in PercentInputs :
          handlePercentInput(e.field, e.text) /\ Handled("handlePercentInput", e)

\* the body of App with const itpRate = getItpRate(inputs.comunidad): each
\* useMemo recomputes when a dependency changed
Body(itpRate) ==
    /\ results' = UseMemo(results, ResultsDeps(ref.inputs + Len(queue), itpRate),
                          Results(inputs', itpRate))
    /\ ref' = [inputs |-> ref.inputs + Len(queue),
               results |-> IF results' = results THEN ref.results ELSE ref.results + 1]
    /\ cashFlowProjection' = UseMemo(cashFlowProjection,
                                     ProjectionDeps(ref'.results, inputs'),
                                     CashFlowProjection(results'.value, inputs'))

\* the first render, and the render after a batch of updates: the enqueued
\* updates are applied in order, then the body of App runs
Render ==
    /\ pc = "mount" \/ (pc = "mounted" /\ queue # <<>>)
    /\ pc' = "mounted"
    /\ inputs' = ReduceAll(queue, inputs)
    /\ Body(getItpRate(inputs'.comunidad))
    /\ applied' = [before |-> inputs, batch |-> queue]
    /\ queue' = <<>>
    /\ UNCHANGED <<event, done, fn, args, ret>>

NextApp == HandleInputChange \/ HandleNumberInput \/ HandlePercentInput \/ Render

SpecApp == InitApp /\ [][NextApp]_vars

(***************************************************************************)
(* The claims.                                                             *)
(***************************************************************************)
Returned(f) == pc = "return" /\ fn = f

\* the inputs of the call, destructured as calculateInvestment reads them
In == Destructure(args.inputs)

\* |x * n - p| <= n * 2^(x.exp - 1), exactly (x, n, p finite and positive): the
\* sum of n payments x is within n half-units-in-the-last-place of x from p
WithinRounding(x, n, p) ==
    LET pe == x.exp + n.exp
        te == pe - 1
        e0 == Min(te, p.exp)
        a  == NShl(NMul(x.man, n.man), pe - e0)
        b  == NShl(p.man, p.exp - e0)
        t  == NShl(n.man, te - e0)
    IN  IF NCmp(a, b) >= 0 THEN NCmp(NSub(a, b), t) <= 0 ELSE NCmp(NSub(b, a), t) <= 0

\* x * n = p, exactly (x, n, p finite and positive)
ExactProduct(x, n, p) ==
    LET pe == x.exp + n.exp
        e0 == Min(pe, p.exp)
    IN  NShl(NMul(x.man, n.man), pe - e0) = NShl(p.man, p.exp - e0)

PositiveLoan == Gt0(args.principal) /\ Gt0(args.years)

\* C1: for principal > 0, years > 0 and annualRate > 0, calculatePMT returns
\* principal * r * (1+r)^n / ((1+r)^n - 1) with r = annualRate / 12 and
\* n = years * 12 (evaluated in the source's order, on Numbers).
C1_AmortizationFormula ==
    (Returned("calculatePMT") /\ PositiveLoan /\ Gt0(args.annualRate)) =>
        LET r == FDiv(args.annualRate, F12)
            n == FMul(args.years, F12)
            g == MathPow(FAdd(F1, r), n)
        IN  ret = FDiv(FMul(FMul(args.principal, r), g), FSub(g, F1))

\* a loan at a positive rate whose payment exceeds the straight-line amount
C1_Witness ==
    /\ Returned("calculatePMT") /\ PositiveLoan /\ Gt0(args.annualRate)
    /\ IsFinite(ret)
    /\ FLt(FDiv(args.principal, FMul(args.years, F12)), ret)

\* C2: whatever annualRate is, calculatePMT returns exactly 0 whenever
\* principal <= 0 or years <= 0.
C2_NoLoanNoPayment ==
    (Returned("calculatePMT") /\ (Le0(args.principal) \/ Le0(args.years))) => ret = F0

\* a positive principal over a term of 0 years at a positive rate
C2_Witness ==
    /\ Returned("calculatePMT")
    /\ Gt0(args.principal) /\ IsZero(args.years) /\ Gt0(args.annualRate)
    /\ ret = F0

\* C3, as stated: for principal > 0, years > 0 and annualRate <= 0 calculatePMT
\* returns principal / (years * 12), and years * 12 such payments sum to
\* exactly the principal.
C3_SumsExactlyToPrincipal ==
    (Returned("calculatePMT") /\ PositiveLoan /\ Le0(args.annualRate)) =>
        /\ ret = FDiv(args.principal, FMul(args.years, F12))
        /\ ExactProduct(ret, FMul(args.years, F12), args.principal)

\* C3, amended: for principal > 0, years > 0 and annualRate <= 0 calculatePMT
\* returns the Number nearest to principal / (years * 12); years * 12 such
\* payments sum to the principal up to the rounding of that quotient (half a
\* unit in the last place of the payment, per payment).
C3_StraightLineRounded ==
    (Returned("calculatePMT") /\ PositiveLoan /\ Le0(args.annualRate)) =>
        /\ ret = FDiv(args.principal, FMul(args.years, F12))
        /\ IsFinite(ret) /\ Gt0(ret)
        /\ WithinRounding(ret, FMul(args.years, F12), args.principal)

\* a zero-rate loan whose payments do not sum exactly to the principal
C3_Witness ==
    /\ Returned("calculatePMT") /\ PositiveLoan /\ Le0(args.annualRate)
    /\ ~ExactProduct(ret, FMul(args.years, F12), args.principal)
    /\ WithinRounding(ret, FMul(args.years, F12), args.principal)

IsFixtureCall ==
    /\ Returned("calculatePMT")
    /\ args.annualRate = Dec(2, 100) /\ args.years = FInt(30) /\ args.principal = FInt(52500)

\* C4, as stated: calculatePMT(0.02, 30, 52500) is within 0.01 of 194.01.
C4_FixtureNear19401 ==
    IsFixtureCall => FLe(Dec(19400, 100), ret) /\ FLe(ret, Dec(19402, 100))

\* C4, amended: calculatePMT(0.02, 30, 52500) is within 0.01 of 194.05.
C4_FixtureNear19405 ==
    IsFixtureCall => FLe(Dec(19404, 100), ret) /\ FLe(ret, Dec(19406, 100))

\* the fixture call has returned a payment
C4_Witness == IsFixtureCall /\ IsFinite(ret) /\ Gt0(ret)

\* C5: for every record of finite numeric inputs, every field of the result of
\* calculateInvestment is a finite Number (no division by zero, NaN or
\* infinity).
C5_ResultAlwaysFinite ==
    (Returned("calculateInvestment") /\ \A f \in DOMAIN args.inputs : IsFinite(args.inputs[f])) =>
        \A f \in ResultFields : IsFinite(ret[f])

\* C6: when totalCompra is 0 both yields are 0; when totalCompra > 0 they are
\* ingresoAnual / totalCompra and
\* (ingresoAnual - totalGastosAnual - interesesPromedioAnual) / totalCompra.
C6_YieldsGuarded ==
    Returned("calculateInvestment") =>
        /\ IsZero(ret.totalCompra) =>
              ret.rentabilidadBruta = F0 /\ ret.rentabilidadNeta = F0
        /\ Gt0(ret.totalCompra) =>
              /\ ret.rentabilidadBruta = FDiv(ret.ingresoAnual, ret.totalCompra)
              /\ ret.rentabilidadNeta =
                    FDiv(FSub(FSub(ret.ingresoAnual, ret.totalGastosAnual),
                              ret.interesesPromedioAnual), ret.totalCompra)

\* a rented property bought for nothing: income over a total cost of 0
C6_Witness ==
    /\ Returned("calculateInvestment")
    /\ IsZero(ret.totalCompra) /\ Gt0(ret.ingresoAnual)
    /\ ret.rentabilidadBruta = F0 /\ ret.rentabilidadNeta = F0

\* C7: when capitalAportar <= 0, cashOnCash, roce and rentabilidadTotal are all
\* exactly 0, whatever revalorizacion is.
C7_EquityGuard ==
    (Returned("calculateInvestment") /\ Le0(ret.capitalAportar)) =>
        ret.cashOnCash = F0 /\ ret.roce = F0 /\ ret.rentabilidadTotal = F0

\* negative equity, a positive appreciation rate and a non-zero cash flow
C7_Witness ==
    LET d == In IN
    /\ Returned("calculateInvestment")
    /\ Le0(ret.capitalAportar) /\ ~IsZero(ret.capitalAportar)
    /\ Gt0(d.revalorizacion) /\ ~IsZero(ret.cashFlowMensual)
    /\ ret.rentabilidadTotal = F0

\* C8: when cuotaAlquiler <= 0, per, porcentajeHipotecaAlquiler and
\* cashFlowAlquiler are 0; when it is > 0 they are totalCompra / ingresoAnual,
\* cuotaHipotecaMensual / cuotaAlquiler and cashFlowMensual / cuotaAlquiler.
C8_RentGuard ==
    LET d == In IN
    Returned("calculateInvestment") =>
        /\ Le0(d.cuotaAlquiler) =>
              /\ ret.per = F0
              /\ ret.porcentajeHipotecaAlquiler = F0
              /\ ret.cashFlowAlquiler = F0
        /\ Gt0(d.cuotaAlquiler) =>
              /\ ret.per = FDiv(ret.totalCompra, ret.ingresoAnual)
              /\ ret.porcentajeHipotecaAlquiler =
                    FDiv(ret.cuotaHipotecaMensual, d.cuotaAlquiler)
              /\ ret.cashFlowAlquiler = FDiv(ret.cashFlowMensual, d.cuotaAlquiler)

\* no rent, with a mortgage payment and a purchase cost that are not 0
C8_Witness ==
    LET d == In IN
    /\ Returned("calculateInvestment")
    /\ IsZero(d.cuotaAlquiler)
    /\ Gt0(ret.cuotaHipotecaMensual) /\ Gt0(ret.totalCompra) /\ ~IsZero(ret.cashFlowMensual)
    /\ ret.per = F0 /\ ret.cashFlowAlquiler = F0

\* C9: impuestoITP = precioCompra * itpRate, and totalCompra = precioCompra +
\* impuestoITP + gastos + gastosHipoteca + costeReforma + comision +
\* mobiliario, each of the seven counted once.
C9_PurchaseTotal ==
    LET d == In IN
    Returned("calculateInvestment") =>
        /\ ret.impuestoITP = FMul(d.precioCompra, d.itpRate)
        /\ ret.totalCompra =
              FAdd(FAdd(FAdd(FAdd(FAdd(FAdd(d.precioCompra, ret.impuestoITP), d.gastos),
                                  d.gastosHipoteca), d.costeReforma), d.comision),
                   d.mobiliario)

\* all seven items of the purchase are non-zero
C9_Witness ==
    LET d == In IN
    /\ Returned("calculateInvestment")
    /\ \A f \in {"precioCompra", "gastos", "gastosHipoteca", "costeReforma", "comision",
                 "mobiliario"} : Gt0(d[f])
    /\ Gt0(ret.impuestoITP) /\ Gt0(ret.totalCompra)

\* C10: hipoteca = precioCompra * porcentajeFinanciado (the financed fraction
\* applies to the purchase price only) and capitalAportar = totalCompra -
\* hipoteca.
C10_LoanOnPriceOnly ==
    LET d == In IN
    Returned("calculateInvestment") =>
        /\ ret.hipoteca = FMul(d.precioCompra, d.porcentajeFinanciado)
        /\ ret.capitalAportar = FSub(ret.totalCompra, ret.hipoteca)

\* a financed purchase with taxes and costs on top of the price
C10_Witness ==
    LET d == In IN
    /\ Returned("calculateInvestment")
    /\ Gt0(d.porcentajeFinanciado) /\ Gt0(ret.impuestoITP) /\ Gt0(d.gastos)
    /\ FLt(ret.hipoteca, FMul(ret.totalCompra, d.porcentajeFinanciado))

\* 2^-50: eight half-units-in-the-last-place, relative
RoundingSlack == RoundPack(1, NFromInt(1), 0 - 50, FALSE)

\* |x| <= 2^-50 * scale
Negligible(x, scale) == FLe(FAbs(x), FMul(RoundingSlack, scale))

\* the average monthly interest as the source computes it from the returned values
AverageInterestFormula(d) ==
    IF Gt0(ret.hipoteca) /\ Gt0(d.plazoHipoteca)
    THEN FDiv(FSub(FMul(FMul(ret.cuotaHipotecaMensual, F12), d.plazoHipoteca), ret.hipoteca),
              FMul(d.plazoHipoteca, F12))
    ELSE F0

\* C11, as stated: interesesPromedioMensual = ((cuotaHipotecaMensual * 12 *
\* plazoHipoteca) - hipoteca) / (plazoHipoteca * 12) when hipoteca > 0 and
\* plazoHipoteca > 0, and 0 otherwise; interesesPromedioAnual is 12 times it;
\* it is 0 for a loan at a rate <= 0.
C11_NoInterestAtZeroRate ==
    Returned("calculateInvestment") =>
        LET d == In IN
        /\ ret.interesesPromedioMensual = AverageInterestFormula(d)
        /\ ret.interesesPromedioAnual = FMul(ret.interesesPromedioMensual, F12)
        /\ Le0(d.tipoInteres) => ret.interesesPromedioMensual = F0

\* C11, amended: the same formulas; for a loan at a rate <= 0 the average
\* interest is 0 up to rounding: at most 2^-50 of the monthly payment in
\* magnitude.
C11_AverageInterest ==
    Returned("calculateInvestment") =>
        LET d == In IN
        /\ ret.interesesPromedioMensual = AverageInterestFormula(d)
        /\ ret.interesesPromedioAnual = FMul(ret.interesesPromedioMensual, F12)
        /\ Le0(d.tipoInteres) =>
              Negligible(ret.interesesPromedioMensual, ret.cuotaHipotecaMensual)

\* an interest-free loan whose average interest is not 0
C11_Witness ==
    LET d == In IN
    /\ Returned("calculateInvestment")
    /\ Le0(d.tipoInteres) /\ Gt0(ret.hipoteca) /\ Gt0(d.plazoHipoteca)
    /\ ~IsZero(ret.interesesPromedioMensual)
    /\ Negligible(ret.interesesPromedioMensual, ret.cuotaHipotecaMensual)

\* C12: cashFlowMensual = cuotaAlquiler - cuotaHipotecaMensual -
\* totalGastosMensual, unguarded and unclamped; totalGastosMensual is the sum
\* of the five annual expense items divided by 12; cashFlowAnual =
\* cashFlowMensual * 12.
C12_CashFlow ==
    Returned("calculateInvestment") =>
        LET d == In IN
        /\ ret.totalGastosMensual =
              FDiv(FAdd(FAdd(FAdd(FAdd(d.impuestosAnuales, d.segurosAnuales), d.comunidadAnual),
                             d.mantenimientoAnual), d.periodosVacioAnual), F12)
        /\ ret.cashFlowMensual =
              FSub(FSub(d.cuotaAlquiler, ret.cuotaHipotecaMensual), ret.totalGastosMensual)
        /\ ret.cashFlowAnual = FMul(ret.cashFlowMensual, F12)

\* a rent below the payment plus the monthly expenses: a negative cash flow
C12_Witness ==
    LET d == In IN
    /\ Returned("calculateInvestment")
    /\ Gt0(d.cuotaAlquiler) /\ Gt0(ret.cuotaHipotecaMensual) /\ Gt0(ret.totalGastosMensual)
    /\ FLt(d.cuotaAlquiler, FAdd(ret.cuotaHipotecaMensual, ret.totalGastosMensual))
    /\ IsFinite(ret.cashFlowMensual) /\ FLt(ret.cashFlowMensual, F0)

\* C13: with capitalAportar > 0, rentabilidadTotal = ((ingresoAnual -
\* totalGastosAnual - interesesPromedioAnual) / capitalAportar) +
\* revalorizacion, the appreciation rate added unscaled.
C13_TotalReturn ==
    (Returned("calculateInvestment") /\ Gt0(ret.capitalAportar)) =>
        ret.rentabilidadTotal =
            FAdd(FDiv(FSub(FSub(ret.ingresoAnual, ret.totalGastosAnual),
                           ret.interesesPromedioAnual), ret.capitalAportar),
                 In.revalorizacion)

\* positive equity and a non-zero appreciation rate
C13_Witness ==
    /\ Returned("calculateInvestment")
    /\ Gt0(ret.capitalAportar) /\ IsFinite(ret.rentabilidadTotal)
    /\ ~IsZero(In.revalorizacion) /\ Gt0(ret.interesesPromedioAnual)

\* cashOnCash and roce as the source computes them from the returned values
EquityRatios ==
    /\ ret.cashOnCash = FDiv(FMul(F12, ret.cashFlowMensual), ret.capitalAportar)
    /\ ret.roce = FDiv(FMul(F12, FAdd(ret.cashFlowMensual, ret.amortizacionPromedioMensual)),
                       ret.capitalAportar)

C15_Scenario ==
    (Returned("calculateInvestment") /\ args.inputs = ScenarioInputs) =>
        /\ ret.totalCompra = FInt(145000)
        /\ ret.hipoteca = FInt(52500)
        /\ ret.capitalAportar = FInt(92500)
        /\ ret.ingresoAnual = FInt(13200)
        /\ ret.rentabilidadBruta = FDiv(FInt(13200), FInt(145000))

\* the scenario has been computed
C15_Witness ==
    /\ Returned("calculateInvestment") /\ args.inputs = ScenarioInputs
    /\ ret.impuestoITP = FInt(10500) /\ IsZero(ret.totalGastosAnual)

\* the horizon of the call, 10 when omitted
Horizon == Default(args.years, FInt(10))

\* C16: for an integer horizon generateCashFlowProjection returns exactly
\* that many points when it is positive and none when it is <= 0, 10 points
\* when the horizon is omitted; the k-th point is labelled with year k.
C16_ProjectionLength ==
    (Returned("generateCashFlowProjection") /\ (Le0(Horizon) \/ IsInteger(Horizon))) =>
        /\ Len(ret) = IF Gt0(Horizon) THEN ToInt(Horizon) ELSE 0
        /\ \A k \in 1..Len(ret) : ret[k].year = "Año " \o ToString(k)

\* a call without a horizon has returned 10 points
C16_Witness ==
    /\ Returned("generateCashFlowProjection")
    /\ args.years = Undefined
    /\ Len(ret) = 10 /\ ret[10].year = "Año 10"

RECURSIVE RentOfYear(_, _, _)
\* the cash flow of year k: base * 12, then multiplied by (1 + rate) each year
RentOfYear(k, base, rate) ==
    IF k = 1 THEN FMul(base, F12)
    ELSE FMul(RentOfYear(k - 1, base, rate), FAdd(F1, rate))

\* C17: the year-1 cash flow is the base monthly cash flow times 12 with no
\* growth; every later year's is the previous year's times (1 + growth rate),
\* negative rates included; the reported cashFlow is that figure rounded to
\* the nearest integer.
C17_YearlyGrowth ==
    Returned("generateCashFlowProjection") =>
        \A k \in 1..Len(ret) :
            ret[k].cashFlow =
                MathRound(RentOfYear(k, args.results.cashFlowMensual,
                                     Default(args.revalorizacion, F0)))

\* three years at a negative rate, each year's figure below the one before
C17_Witness ==
    /\ Returned("generateCashFlowProjection")
    /\ args.revalorizacion # Undefined /\ FLt(args.revalorizacion, F0)
    /\ Len(ret) >= 3
    /\ FLt(ret[2].cashFlow, ret[1].cashFlow) /\ FLt(ret[3].cashFlow, ret[2].cashFlow)

RECURSIVE SumOfReported(_, _)
\* the sum of the reported cashFlow values of years 1..k
SumOfReported(points, k) ==
    IF k = 0 THEN F0 ELSE FAdd(SumOfReported(points, k - 1), points[k].cashFlow)

\* C18: the accumulated value of year k is the sum of the reported (rounded)
\* cashFlow values of years 1..k.
C18_AccumulatesRounded ==
    Returned("generateCashFlowProjection") =>
        \A k \in 1..Len(ret) : ret[k].accumulated = SumOfReported(ret, k)

\* C19: projecting a base monthly cash flow of 100 at rate 0.02 over 3 years
\* yields three points (1200, 1200), (1224, 2424), (1248, 3672).
C19_ProjectionFixture ==
    (/\ Returned("generateCashFlowProjection")
     /\ args.results.cashFlowMensual = FInt(100)
     /\ args.revalorizacion = Dec(2, 100) /\ args.years = FInt(3)) =>
        /\ Len(ret) = 3
        /\ ret[1].cashFlow = FInt(1200) /\ ret[1].accumulated = FInt(1200)
        /\ ret[2].cashFlow = FInt(1224) /\ ret[2].accumulated = FInt(2424)
        /\ ret[3].cashFlow = FInt(1248) /\ ret[3].accumulated = FInt(3672)

\* the fixture call has returned its third point
C19_Witness ==
    /\ Returned("generateCashFlowProjection")
    /\ args.results.cashFlowMensual = FInt(100)
    /\ args.revalorizacion = Dec(2, 100) /\ args.years = FInt(3)
    /\ Len(ret) = 3 /\ ret[3].year = "Año 3"

C22_RateOrFallback ==
    Returned("getItpRate") =>
        /\ args.community \in communities => ret = itpTable[args.community]
        /\ args.community \notin communities => ret = Dec(8, 100)
        /\ IsNumber(ret)

\* C21: calculateInvestment leaves the inputs record it receives unchanged
\* and generateCashFlowProjection leaves the results record it receives
\* unchanged: across either call the caller's arguments are what they were.
C21_ArgumentsUntouched ==
    [][(fn \in {"calculateInvestment", "generateCashFlowProjection"} /\ pc = "call")
           => (args' = args /\ (done')[Len(done')].args = args)]_vars

C21_Witness ==
    /\ Returned("calculateInvestment")
    /\ args.inputs = Sparse
    /\ Destructure(args.inputs) # args.inputs

\* the value the claim gives a field that is absent from the inputs
ClaimedDefault(f) ==
    IF f = "itpRate" THEN Dec(10, 100)
    ELSE IF f = "plazoHipoteca" THEN FInt(30)
    ELSE IF f = "tipoInteres" THEN Dec(2, 100)
    ELSE F0

\* the inputs with every absent field written out
Completed(given) ==
    [f \in Fields |-> IF f \in DOMAIN given THEN given[f] ELSE ClaimedDefault(f)]

\* C23: a call with absent fields returns what the call returns with those
\* fields written out as 0, except itpRate 0.10, plazoHipoteca 30 and
\* tipoInteres 0.02; calculateInvestment({}) returns zero in every field.
C23_AbsentFieldDefaults ==
    Returned("calculateInvestment") /\ DOMAIN args.inputs # Fields =>
        /\ ret = calculateInvestment(Completed(args.inputs))
        /\ args.inputs = EmptyInputs => \A k \in ResultFields : ret[k] = F0

C23_Witness ==
    /\ Returned("calculateInvestment")
    /\ args.inputs = Sparse
    /\ Gt0(ret.cuotaHipotecaMensual)
    /\ ret.impuestoITP = FInt(10000)

\* one month of the loan: the balance before the payment must be positive;
\* balance := balance * (1 + annualRate/12) - P
Month(s, g, P) ==
    IF s.balance.cls = "undefined" THEN s    \* (never: the balance is a Number)
    ELSE [balance |-> FSub(FMul(s.balance, g), P), positive |-> s.positive /\ Gt0(s.balance)]

\* twelve months
Year(s, g, P) ==
    Month(Month(Month(Month(Month(Month(Month(Month(Month(Month(Month(Month(
        s, g, P), g, P), g, P), g, P), g, P), g, P), g, P), g, P), g, P), g, P), g, P), g, P)

RECURSIVE Amortize(_, _, _, _)
\* the loan after k more years of payments P
Amortize(k, s, g, P) ==
    IF s.balance.cls = "undefined" \/ k = 0 THEN s
    ELSE Amortize(k - 1, Year(s, g, P), g, P)

\* the loan of the call after all its payments of ret, for a whole number of years
Amortized ==
    Amortize(ToInt(args.years), [balance |-> args.principal, positive |-> TRUE],
             FAdd(F1, FDiv(args.annualRate, F12)), ret)

\* a loan with principal > 0, integer years > 0 and annualRate > 0
AmortizingLoan ==
    /\ Returned("calculatePMT") /\ PositiveLoan /\ Gt0(args.annualRate)
    /\ IsPaymentCount(args.years)

\* 2^-40
AmortizationSlack == RoundPack(1, NFromInt(1), 0 - 40, FALSE)

StraightLine(d) == FDiv(ret.hipoteca, FMul(d.plazoHipoteca, F12))

\* without a loan or a term the payment and both averages are 0
NoLoanAllZero(d) ==
    (Le0(ret.hipoteca) \/ Le0(d.plazoHipoteca)) =>
        /\ ret.cuotaHipotecaMensual = F0
        /\ ret.interesesPromedioMensual = F0
        /\ ret.amortizacionPromedioMensual = F0

SanePurchase(d) ==
    /\ \A f \in { "precioCompra", "itpRate", "gastos", "gastosHipoteca", "costeReforma",
                  "comision", "mobiliario" } : FLe(F0, d[f])
    /\ FLe(F0, d.porcentajeFinanciado) /\ FLe(d.porcentajeFinanciado, F1)

\* C28: for precioCompra >= 0, itpRate >= 0, the five one-off cost items >= 0
\* and porcentajeFinanciado within 0..1, capitalAportar is >= 0 and at least
\* totalCompra - precioCompra, so cashOnCash, roce and rentabilidadTotal are
\* zeroed by the equity guard only when capitalAportar is exactly 0, and are
\* the unguarded quotients otherwise.
C28_EquityNotNegative ==
    Returned("calculateInvestment") =>
        LET d == In IN
        SanePurchase(d) =>
            /\ FLe(F0, ret.capitalAportar)
            /\ FLe(FSub(ret.totalCompra, d.precioCompra), ret.capitalAportar)
            /\ IF IsZero(ret.capitalAportar)
               THEN ret.cashOnCash = F0 /\ ret.roce = F0 /\ ret.rentabilidadTotal = F0
               ELSE /\ ret.cashOnCash = FDiv(ret.cashFlowAnual, ret.capitalAportar)
                    /\ ret.roce = FDiv(FMul(F12, FAdd(ret.cashFlowMensual,
                                                      ret.amortizacionPromedioMensual)),
                                       ret.capitalAportar)

\* a fully financed price: the equity is exactly the taxes and costs
C28_Witness ==
    LET d == In IN
    /\ Returned("calculateInvestment")
    /\ SanePurchase(d) /\ d.porcentajeFinanciado = F1 /\ Gt0(d.precioCompra)
    /\ Gt0(ret.capitalAportar)
    /\ ret.capitalAportar = FSub(ret.totalCompra, d.precioCompra)
    /\ ~IsZero(ret.cashOnCash)

\* C26 as stated: after any sequence of edits through the App's handlers the
\* financed fraction held in the input state lies within 0..1.
C26_FractionWithinUnit ==
    pc = "mounted" =>
        FLe(F0, inputs.porcentajeFinanciado) /\ FLe(inputs.porcentajeFinanciado, F1)

\* C27: after any sequence of edits, the rendered results are
\* calculateInvestment of the current inputs with itpRate =
\* getItpRate(comunidad), and the rendered projection is
\* generateCashFlowProjection of those results with the current revalorizacion
\* over 10 years.
C27_NothingStale ==
    pc = "mounted" =>
        /\ results.value =
              calculateInvestment(WithItpRate(inputs, getItpRate(inputs.comunidad)))
        /\ cashFlowProjection.value =
              generateCashFlowProjection(results.value, inputs.revalorizacion, FInt(10))

\* a render after changing only comunidad: the tax follows the new rate
C27_Witness ==
    /\ pc = "mounted"
    /\ Len(applied.batch) = 1 /\ applied.batch[1].field = "comunidad"
    /\ applied.before.comunidad # inputs.comunidad
    /\ results.value.impuestoITP = FMul(inputs.precioCompra, Dec(65, 1000))
    /\ cashFlowProjection.value[1].cashFlow = MathRound(results.value.cashFlowAnual)

\* the number a text stands for, Undefined when it does not start with one
Meaning(text) ==
    CASE text = <<"1", "5", "0", "0", "0", "0">> -> FInt(150000)
      [] text = <<" ", "9", "5", "0", ".", "5">> -> Dec(9505, 10)
      [] text = <<"-", "2", "0", "e", "1", "x">> -> FInt(0 - 200)
      [] text = <<"1", "5", "0">> -> FInt(150)
      [] OTHER -> Undefined

\* the value the last handler call gave its field: still enqueued, or rendered
Stored ==
    IF queue # <<>> THEN queue[Len(queue)].value ELSE inputs[event.field]

\* C29: after handleNumberInput or handlePercentInput with any text the edited
\* field is not NaN: text that does not parse to a number stores 0,
\* handleNumberInput stores the parsed number and handlePercentInput the parsed
\* number divided by 100; no numeric field of the input state is ever NaN.
C29_NeverNaN ==
    /\ event.handler \in {"handleNumberInput", "handlePercentInput"} =>
          /\ ~IsNaN(Stored)
          /\ Stored = IF Meaning(event.text) = Undefined THEN F0
                      ELSE IF event.handler = "handleNumberInput" THEN Meaning(event.text)
                      ELSE FDiv(Meaning(event.text), FInt(100))
    /\ \A f \in Fields \ {"itpRate"} : ~IsNaN(inputs[f])

\* a text without a number, rendered as 0
C29_Witness ==
    /\ pc = "mounted" /\ queue = <<>>
    /\ event.handler = "handlePercentInput" /\ event.text = <<>>
    /\ inputs.revalorizacion = F0
    /\ applied.before.revalorizacion = Dec(2, 100)

RECURSIVE LastEdit(_, _, _)
\* the value the edits give field f, in order, starting from value old
LastEdit(edits, f, old) ==
    IF edits = <<>> THEN old
    ELSE LastEdit(Tail(edits), f, IF Head(edits).field = f THEN Head(edits).value ELSE old)

\* C30: the edits applied by a render replace only the fields they name, each by
\* the last value given to it, and leave every other field as it was; no field
\* is added or removed.  This covers several edits before one render.
C30_OnlyNamedField ==
    pc = "mounted" =>
        /\ DOMAIN inputs = DOMAIN defaultInputs
        /\ \A f \in DOMAIN inputs :
              inputs[f] = LastEdit(applied.batch, f, applied.before[f])

\* two edits of different fields applied by one render
C30_Witness ==
    /\ pc = "mounted"
    /\ Len(applied.batch) = 2
    /\ applied.batch[1].field = "precioCompra" /\ applied.batch[2].field = "cuotaAlquiler"
    /\ inputs.precioCompra = FInt(150000) /\ inputs.cuotaAlquiler = Dec(9505, 10)
    /\ \A f \in DOMAIN inputs \ {"precioCompra", "cuotaAlquiler"} :
          inputs[f] = applied.before[f]
====
